---- MODULE Spec2Model ----
(***************************************************************************)
(* Model of the TimeLeap .dat tools:                                       *)
(*   src/TimeLeap/python/pack_dat.py     encode_buffer, create_dat_archive *)
(*   src/TimeLeap/python/extract_dat.py  decode_buffer, parse_dat_index,   *)
(*                                       extract_and_decode                *)
(* Bytes are integers 0..255, byte strings are sequences of bytes          *)
(* (1-based here, 0-based in the source), names are sequences of code      *)
(* points.                                                                 *)
(***************************************************************************)
EXTENDS Integers, Sequences, FiniteSets, TLC

VARIABLES
    pc,        \* position of the tool that is running
    a4,        \* start_offset handed to encode_buffer / decode_buffer
    orig,      \* the buffer before any call
    prev,      \* the buffer before the latest call
    buf,       \* the bytearray the routines transform in place
    hist,      \* the calls made so far: [op, mode]
    ent,       \* an index entry to lay out: [name, offset, unpacked, packed]
    slot,      \* its 80-byte slot as stored in the archive
    parsed,    \* the Entry parse_dat_index builds from the slot
    files,     \* the FileEntry list create_dat_archive collected
    archive,   \* the bytes of the .dat file on disk
    entries,   \* the Entry list parse_dat_index returned
    outputs,   \* the (name, payload) files extract_and_decode wrote
    failed     \* the entries whose extraction raised and was reported

vars == <<pc, a4, orig, prev, buf, hist, ent, slot, parsed,
          files, archive, entries, outputs, failed>>

(***************************************************************************)
(* Bounds of the model.                                                    *)
(***************************************************************************)
MaxEnd == 10
MaxOps == 2

\* byte values the buffers are drawn from: 0x48 (high bit clear) and 0x80
\* (high bit set, and a fixed point of the negation)
ByteVals == {72, 128}

(***************************************************************************)
(* Byte arithmetic.                                                        *)
(***************************************************************************)
RECURSIVE Xor(_, _)
Xor(a, b) ==
    IF a = 0 /\ b = 0 THEN 0
    ELSE ((a + b) % 2) + 2 * Xor(a \div 2, b \div 2)

\* ((b & 0x0F) << 4) | ((b & 0xF0) >> 4)
nibble_swap_byte(b) == (b % 16) * 16 + (b \div 16)

nibble_swap(data) == [x \in 1..Len(data) |-> nibble_swap_byte(data[x])]

\* (-(b if b < 128 else b - 256)) & 0xFF
NegateSaturating(b) == IF b = 128 THEN 127 ELSE (256 - b) % 256
Negate(b) == (0 - (IF b < 128 THEN b ELSE b - 256)) % 256

v12 == <<255, 255, 255, 1, 156, 170, 165, 0, 48, 255>>

(***************************************************************************)
(* The three loops of encode_buffer / decode_buffer.  i, j, k are absolute *)
(* positions; the byte touched is buf[i - a4].                             *)
(***************************************************************************)
RECURSIVE T1Loop(_, _, _, _)
T1Loop(b, off, end, i) ==
    IF i < end
    THEN T1Loop(IF i >= off THEN [b EXCEPT ![i - off + 1] = Negate(@)] ELSE b,
                off, end, i + 4)
    ELSE b

Transform1(b, off) == T1Loop(b, off, off + Len(b), 4 * (off \div 4) + 1)

RECURSIVE T2Loop(_, _, _, _)
T2Loop(b, off, end, j) ==
    IF j < end
    THEN T2Loop(IF j >= off
                THEN [b EXCEPT ![j - off + 1] =
                          Xor(@, v12[((j % 6) + ((j \div 5) % 5)) + 1])]
                ELSE b,
                off, end, j + 3)
    ELSE b

Transform2From3(b, off) == T2Loop(b, off, off + Len(b), 3 * (off \div 3) + 3)
Transform2(b, off) == T2Loop(b, off, off + Len(b), 3 * (off \div 3))

RECURSIVE T3Loop(_, _, _, _)
T3Loop(b, off, end, k) ==
    IF k < end
    THEN T3Loop(IF k >= off
                THEN [b EXCEPT ![k - off + 1] = nibble_swap_byte(@)]
                ELSE b,
                off, end, k + 6)
    ELSE b

Transform3(b, off) == T3Loop(b, off, off + Len(b), 6 * (off \div 6) + 2)

\* buf[0] of an empty bytearray raises IndexError when start_offset is 0
RaisesIndexError(b, off) == off = 0 /\ Len(b) = 0

select_mode(b, off) ==
    IF off # 0 THEN 1
    ELSE IF b[1] < 128 THEN 2
    ELSE 1

decode_bufferNoSwap(b, off) ==
    IF select_mode(b, off) = 1
    THEN Transform3(Transform2(Transform1(b, off), off), off)
    ELSE Transform1(Transform2(b, off), off)
decode_buffer(b, off) ==
    IF select_mode(b, off) = 1
    THEN Transform3(Transform2(Transform1(b, off), off), off)
    ELSE Transform1(Transform2(Transform3(b, off), off), off)

encode_bufferSameOrder(b, off) == decode_buffer(b, off)
encode_buffer(b, off) ==
    IF select_mode(b, off) = 1
    THEN Transform1(Transform2(Transform3(b, off), off), off)
    ELSE Transform3(Transform2(Transform1(b, off), off), off)

(***************************************************************************)
(* Specification of the transform engine: a buffer at a start offset, and  *)
(* up to MaxOps calls of encode_buffer / decode_buffer on it.              *)
(***************************************************************************)
RECURSIVE SeqsUpTo(_, _)
SeqsUpTo(S, n) ==
    IF n = 0 THEN {<<>>}
    ELSE LET R == SeqsUpTo(S, n - 1)
         IN  R \cup {Append(s, x) : s \in {r \in R : Len(r) = n - 1}, x \in S}

NoEntry == [name |-> <<>>, offset |-> 0, unpacked |-> 0, packed |-> 0]

IdleIndex == ent = NoEntry /\ slot = <<>> /\ parsed = NoEntry
IdleArchive ==
    files = <<>> /\ archive = <<>> /\ entries = <<>> /\ outputs = {} /\ failed = {}
IdleEngine == a4 = 0 /\ orig = <<>> /\ prev = <<>> /\ buf = <<>> /\ hist = <<>>

\* payloads at start offset 0 with every first byte: the bytes 0x42, 0x43,
\* ... behind it, as in the file [0x41, 0x42, 0x43, 0x44, 0x45]
FirstBytePayloads ==
    {[x \in 1..n |-> IF x = 1 THEN f ELSE 65 + x - 1] : f \in 0..255, n \in 1..MaxEnd}

Init ==
    /\ pc = "ready"
    /\ a4 \in 0..(MaxEnd - 1)
    /\ orig \in SeqsUpTo(ByteVals, MaxEnd - a4)
                 \cup (IF a4 = 0 THEN FirstBytePayloads ELSE {})
    /\ prev = orig
    /\ buf = orig
    /\ hist = <<>>
    /\ IdleIndex
    /\ IdleArchive

Encode ==
    /\ pc = "ready"
    /\ Len(hist) < MaxOps
    /\ IF RaisesIndexError(buf, a4)
       THEN /\ pc' = "IndexError"
            /\ UNCHANGED <<prev, buf, hist>>
       ELSE /\ prev' = buf
            /\ buf' = encode_buffer(buf, a4)
            /\ hist' = Append(hist, [op |-> "encode", mode |-> select_mode(buf, a4)])
            /\ pc' = pc
    /\ UNCHANGED <<a4, orig, ent, slot, parsed, files, archive, entries, outputs, failed>>

Decode ==
    /\ pc = "ready"
    /\ Len(hist) < MaxOps
    /\ IF RaisesIndexError(buf, a4)
       THEN /\ pc' = "IndexError"
            /\ UNCHANGED <<prev, buf, hist>>
       ELSE /\ prev' = buf
            /\ buf' = decode_buffer(buf, a4)
            /\ hist' = Append(hist, [op |-> "decode", mode |-> select_mode(buf, a4)])
            /\ pc' = pc
    /\ UNCHANGED <<a4, orig, ent, slot, parsed, files, archive, entries, outputs, failed>>

Next == Encode \/ Decode

Spec == Init /\ [][Next]_vars

(***************************************************************************)
(* The stages as the specification words them: a per-position rule over    *)
(* the absolute positions start_offset .. start_offset + n - 1.            *)
(***************************************************************************)
K == <<255, 255, 255, 1, 156, 170, 165, 0, 48, 255>>

StageT1(b, off) ==
    [x \in 1..Len(b) |->
        IF (off + x - 1) % 4 = 1 THEN (256 - b[x]) % 256 ELSE b[x]]

StageT2(b, off) ==
    [x \in 1..Len(b) |->
        LET j == off + x - 1
        IN  IF j % 3 = 0 THEN Xor(b[x], K[((j % 6) + ((j \div 5) % 5)) + 1])
            ELSE b[x]]

StageT3(b, off) ==
    [x \in 1..Len(b) |->
        IF (off + x - 1) % 6 = 2 THEN (b[x] % 16) * 16 + (b[x] \div 16) ELSE b[x]]

ModeA == 1
ModeB == 2

LastCall == hist[Len(hist)]

\* C1: round trip, mode A: a payload whose first byte is >= 0x80, encoded
\* and then decoded at start offset 0, comes back unchanged.
C1_RoundTripModeA ==
    (/\ a4 = 0
     /\ Len(hist) = 2
     /\ hist[1].op = "encode"
     /\ hist[2].op = "decode"
     /\ orig[1] >= 128)
    => buf = orig

\* C3: mode selection and stage order: both routines pick mode A when
\* start_offset # 0 or buffer[0] >= 0x80 and mode B otherwise; decode_buffer
\* is T1;T2;T3 in mode A and T3;T2;T1 in mode B, encode_buffer is T3;T2;T1
\* in mode A and T1;T2;T3 in mode B, with the stages as worded above.
C3_ModeAndStageOrder ==
    (Len(hist) > 0 /\ Len(prev) > 0) =>
        /\ LastCall.mode = (IF a4 # 0 \/ prev[1] >= 128 THEN ModeA ELSE ModeB)
        /\ (LastCall.op = "decode" /\ LastCall.mode = ModeA) =>
               buf = StageT3(StageT2(StageT1(prev, a4), a4), a4)
        /\ (LastCall.op = "decode" /\ LastCall.mode = ModeB) =>
               buf = StageT1(StageT2(StageT3(prev, a4), a4), a4)
        /\ (LastCall.op = "encode" /\ LastCall.mode = ModeA) =>
               buf = StageT1(StageT2(StageT3(prev, a4), a4), a4)
        /\ (LastCall.op = "encode" /\ LastCall.mode = ModeB) =>
               buf = StageT3(StageT2(StageT1(prev, a4), a4), a4)

\* encode_buffer and then decode_buffer have run in mode A on a 7-byte
\* buffer at start offset 3, which clips the first positions of every stage
C3_Witness ==
    /\ Len(hist) = 2
    /\ a4 = 3
    /\ Len(buf) = 7
    /\ hist[1].op = "encode"
    /\ hist[2].op = "decode"
    /\ LastCall.mode = ModeA

\* C4: stage involution: over any buffer and start offset, each of the
\* three stages applied twice gives the bytes back; the negation maps
\* 0x00 to 0x00 and 0x80 to 0x80 and is an involution on every byte.
C4_StageInvolution ==
    /\ Transform1(Transform1(buf, a4), a4) = buf
    /\ Transform2(Transform2(buf, a4), a4) = buf
    /\ Transform3(Transform3(buf, a4), a4) = buf
    /\ \A x \in 1..Len(buf) :
           (buf[x] \in {0, 128} /\ (a4 + x - 1) % 4 = 1) =>
               Transform1(buf, a4)[x] = buf[x]
    /\ Negate(0) = 0
    /\ Negate(128) = 128
    /\ \A b \in 0..255 : Negate(Negate(b)) = b

\* a transformed buffer that holds 0x80 at a position all of T1 reaches,
\* long enough for T2 and T3 to act as well
C4_Witness ==
    /\ Len(hist) > 0
    /\ Len(buf) >= 6
    /\ \E x \in 1..Len(buf) : buf[x] = 128 /\ (a4 + x - 1) % 4 = 1
    /\ Transform1(buf, a4) # buf
    /\ Transform2(buf, a4) # buf
    /\ Transform3(buf, a4) # buf

\* C9: at start offset 0 every call, encode or decode, in either mode,
\* leaves byte 0 equal to the old byte 0 XOR 0xFF, so its high bit flips and
\* a decode_buffer call on encode_buffer's output selects the other mode.
C9_FirstByteFlipped ==
    (a4 = 0 /\ Len(hist) > 0) =>
        /\ buf[1] = 255 - prev[1]
        /\ (buf[1] >= 128) # (prev[1] >= 128)
        /\ (Len(hist) = 2 /\ hist[1].op = "encode" /\ hist[2].op = "decode") =>
               hist[2].mode # hist[1].mode

C9_Witness ==
    /\ a4 = 0
    /\ Len(hist) = 2
    /\ hist[1].op = "encode"
    /\ hist[2].op = "decode"
    /\ hist[1].mode = ModeB
    /\ hist[2].mode = ModeA
    /\ Len(buf) = MaxEnd

\* C11: short-payload round trip: a payload of 1 to 9 bytes, whatever its
\* first byte, encoded and then decoded at start offset 0 comes back
\* unchanged, although the decoder takes its mode from the ciphertext; so
\* does the payload [0x41, 0x42, 0x43, 0x44, 0x45].
C11_ShortRoundTrip ==
    (/\ a4 = 0
     /\ Len(hist) >= 2
     /\ hist[1].op = "encode"
     /\ hist[2].op = "decode"
     /\ Len(orig) >= 1
     /\ Len(orig) <= 9)
    => (IF Len(hist) = 2 THEN buf ELSE prev) = orig

\* the file [0x41, 0x42, 0x43, 0x44, 0x45] was encoded in mode B, decoded in
\* mode A and came back
C11_Witness ==
    /\ a4 = 0
    /\ orig = <<65, 66, 67, 68, 69>>
    /\ Len(hist) = 2
    /\ hist[1] = [op |-> "encode", mode |-> ModeB]
    /\ hist[2] = [op |-> "decode", mode |-> ModeA]
    /\ prev # orig
    /\ buf = orig

(***************************************************************************)
(* Index entries: the 80-byte slot, its fields and the name conversions.   *)
(***************************************************************************)
EntrySize == 80
NameField == 64
NameLimit == 63
MaxNameChars == 2

\* code points names are drawn from: 'a' (1 byte), e-acute (2), euro (3)
NameChars == {97, 233, 8364}

Repeat(x, n) == [i \in 1..n |-> x]

RECURSIVE Flatten(_)
Flatten(ss) == IF ss = <<>> THEN <<>> ELSE Head(ss) \o Flatten(Tail(ss))

\* Python's s[a:b] on a sequence of length n: negative indices count from
\* the end, everything is clipped to 0..n
PyIndex(i, n) ==
    IF i < 0 THEN (IF i + n < 0 THEN 0 ELSE i + n)
    ELSE IF i > n THEN n ELSE i

PySlice(s, a, b) ==
    LET lo == PyIndex(a, Len(s))
        hi == PyIndex(b, Len(s))
    IN  IF hi <= lo THEN <<>> ELSE SubSeq(s, lo + 1, hi)

\* str.encode("utf-8") of one code point
utf8_char(c) ==
    IF c < 128 THEN <<c>>
    ELSE IF c < 2048 THEN <<192 + (c \div 64), 128 + (c % 64)>>
    ELSE IF c < 65536
         THEN <<224 + (c \div 4096), 128 + ((c \div 64) % 64), 128 + (c % 64)>>
    ELSE <<240 + (c \div 262144), 128 + ((c \div 4096) % 64),
           128 + ((c \div 64) % 64), 128 + (c % 64)>>

utf8_encode(name) == Flatten([i \in 1..Len(name) |-> utf8_char(name[i])])

IsCont(bs, i) == i <= Len(bs) /\ bs[i] >= 128 /\ bs[i] <= 191

\* the second byte a lead byte accepts (no overlong forms, no surrogates,
\* nothing above U+10FFFF)
IsSecond(bs, i, lead) ==
    /\ i <= Len(bs)
    /\ bs[i] >= (IF lead = 224 THEN 160 ELSE IF lead = 240 THEN 144 ELSE 128)
    /\ bs[i] <= (IF lead = 237 THEN 159 ELSE IF lead = 244 THEN 143 ELSE 191)

\* bytes.decode("utf-8", errors="ignore") from position i: a malformed or
\* truncated sequence is dropped up to the byte that breaks it
RECURSIVE utf8_decode_from(_, _)
utf8_decode_from(bs, i) ==
    IF i > Len(bs) THEN <<>>
    ELSE LET b == bs[i] IN
         IF b < 128 THEN <<b>> \o utf8_decode_from(bs, i + 1)
         ELSE IF b >= 194 /\ b <= 223
         THEN IF IsCont(bs, i + 1)
              THEN <<(b - 192) * 64 + (bs[i + 1] - 128)>> \o utf8_decode_from(bs, i + 2)
              ELSE utf8_decode_from(bs, i + 1)
         ELSE IF b >= 224 /\ b <= 239
         THEN IF ~IsSecond(bs, i + 1, b) THEN utf8_decode_from(bs, i + 1)
              ELSE IF ~IsCont(bs, i + 2) THEN utf8_decode_from(bs, i + 2)
              ELSE <<(b - 224) * 4096 + (bs[i + 1] - 128) * 64 + (bs[i + 2] - 128)>>
                   \o utf8_decode_from(bs, i + 3)
         ELSE IF b >= 240 /\ b <= 244
         THEN IF ~IsSecond(bs, i + 1, b) THEN utf8_decode_from(bs, i + 1)
              ELSE IF ~IsCont(bs, i + 2) THEN utf8_decode_from(bs, i + 2)
              ELSE IF ~IsCont(bs, i + 3) THEN utf8_decode_from(bs, i + 3)
              ELSE <<(b - 240) * 262144 + (bs[i + 1] - 128) * 4096
                     + (bs[i + 2] - 128) * 64 + (bs[i + 3] - 128)>>
                   \o utf8_decode_from(bs, i + 4)
         ELSE utf8_decode_from(bs, i + 1)

utf8_decode_ignore(bs) == utf8_decode_from(bs, 1)

\* v.to_bytes(n, "little")
RECURSIVE to_bytes_little(_, _)
to_bytes_little(v, n) ==
    IF n = 0 THEN <<>> ELSE <<v % 256>> \o to_bytes_little(v \div 256, n - 1)

\* int.from_bytes(bs, "little"); an empty slice gives 0
RECURSIVE from_bytes_little(_)
from_bytes_little(bs) ==
    IF bs = <<>> THEN 0 ELSE Head(bs) + 256 * from_bytes_little(Tail(bs))

\* bs.split(b"\x00", 1)[0]
RECURSIVE UpToNul(_)
UpToNul(bs) ==
    IF bs = <<>> \/ Head(bs) = 0 THEN <<>> ELSE <<Head(bs)>> \o UpToNul(Tail(bs))

\* the slot create_dat_archive lays out for one entry, before the nibble swap
EntrySlot(name, offset, unpacked, packed) ==
    LET name_bytes == PySlice(utf8_encode(name), 0, NameLimit)
    IN  name_bytes
        \o Repeat(0, NameField - Len(name_bytes))
        \o to_bytes_little(offset, 4)
        \o to_bytes_little(unpacked, 4)
        \o to_bytes_little(packed, 4)
        \o Repeat(0, EntrySize - NameField - 12)

\* Entry(name, packed, unpacked, offset) as parse_dat_index reads it from the
\* swapped-back slice ent
ParseEntrySwapped(e) ==
    [name     |-> utf8_decode_ignore(UpToNul(PySlice(e, 0, 64))),
     offset   |-> from_bytes_little(PySlice(e, 64, 68)),
     unpacked |-> from_bytes_little(PySlice(e, 72, 76)),
     packed   |-> from_bytes_little(PySlice(e, 68, 72))]
ParseEntry(e) ==
    [name     |-> utf8_decode_ignore(UpToNul(PySlice(e, 0, 64))),
     offset   |-> from_bytes_little(PySlice(e, 64, 68)),
     unpacked |-> from_bytes_little(PySlice(e, 68, 72)),
     packed   |-> from_bytes_little(PySlice(e, 72, 76))]

(***************************************************************************)
(* Specification of the index codec: one entry is laid out and swapped as  *)
(* the packer does, then swapped back and parsed as the reader does.       *)
(***************************************************************************)
\* names of up to MaxNameChars code points, and names around the 63-byte
\* limit of the name field: 62, 63 and 64 bytes
Names ==
    (SeqsUpTo(NameChars, MaxNameChars) \ {<<>>})
    \cup {Repeat(97, 63), Repeat(97, 64), Repeat(233, 31), Repeat(233, 32),
          Repeat(8364, 21)}

\* offsets and sizes: the ends of each byte of the field, up to the largest
\* value TLC's integers hold
U32Samples == {0, 1, 255, 256, 65535, 16777216, 2147483647}

InitIndex ==
    /\ pc = "entry"
    /\ ent \in [name : Names, offset : U32Samples,
                unpacked : U32Samples, packed : U32Samples]
    /\ slot = <<>>
    /\ parsed = NoEntry
    /\ IdleEngine
    /\ IdleArchive

EncodeEntry ==
    /\ pc = "entry"
    /\ slot' = nibble_swap(EntrySlot(ent.name, ent.offset, ent.unpacked, ent.packed))
    /\ pc' = "stored"
    /\ UNCHANGED <<a4, orig, prev, buf, hist, ent, parsed,
                   files, archive, entries, outputs, failed>>

DecodeEntry ==
    /\ pc = "stored"
    /\ parsed' = ParseEntry(nibble_swap(slot))
    /\ pc' = "parsed"
    /\ UNCHANGED <<a4, orig, prev, buf, hist, ent, slot,
                   files, archive, entries, outputs, failed>>

NextIndex == EncodeEntry \/ DecodeEntry

SpecIndex == InitIndex /\ [][NextIndex]_vars

\* C8: index entry round trip: an entry whose name is at most 63 UTF-8
\* bytes, laid out in an 80-byte slot (name zero-padded at [0:64], offset,
\* unpacked_size, packed_size little-endian at [64:76], zeros at [76:80]),
\* nibble-swapped, swapped back and parsed, gives the same four fields.
C8_EntryRoundTrip ==
    (pc = "parsed" /\ Len(utf8_encode(ent.name)) <= 63) =>
        /\ parsed = ent
        /\ Len(slot) = 80
        /\ \A x \in 77..80 : slot[x] = 0
        /\ \A x \in (Len(utf8_encode(ent.name)) + 1)..64 : slot[x] = 0

\* a 63-byte name of 3-byte characters with three distinct field values
C8_Witness ==
    /\ pc = "parsed"
    /\ ent.name = Repeat(8364, 21)
    /\ ent.offset = 2147483647
    /\ ent.unpacked = 65535
    /\ ent.packed = 256
    /\ parsed = ent

(***************************************************************************)
(* The archive: create_dat_archive (pack_dat.py) and parse_dat_index /     *)
(* extract_and_decode (extract_dat.py).                                    *)
(***************************************************************************)
MaxFiles == 2
MaxPayloadLen == 10
SmallPayloadLen == 3

Backslash == 92
Slash == 47

\* str(path).replace("\\", "/")
relative_name(name) ==
    [i \in 1..Len(name) |-> IF name[i] = Backslash THEN Slash ELSE name[i]]

\* the encoded payloads, in file order; the cipher keeps the length
encoded_data(fs) == [i \in 1..Len(fs) |-> encode_buffer(fs[i].data, 0)]

\* current_offset when file i is stored: the lengths of the encoded
\* payloads before it
RECURSIVE current_offsetAfter(_, _)
current_offsetAfter(enc, i) ==
    IF i = 0 THEN 0 ELSE current_offsetAfter(enc, i - 1) + Len(enc[i])
current_offsetInclusive(enc, i) == current_offsetAfter(enc, i)
current_offset(enc, i) == current_offsetAfter(enc, i - 1)

\* the bytes create_dat_archive writes for a non-empty file list whose
\* payloads are all non-empty
create_dat_archive(fs) ==
    LET enc == encoded_data(fs)
        index == Flatten([i \in 1..Len(fs) |->
                     EntrySlot(relative_name(fs[i].name), current_offset(enc, i),
                               Len(enc[i]), Len(enc[i]))])
    IN  Flatten(enc) \o nibble_swap(index) \o to_bytes_little(Len(fs), 4)

file_count(dat) == from_bytes_little(PySlice(dat, 0 - 4, Len(dat)))
index_size(dat) == file_count(dat) * 80
index_start(dat) == Len(dat) - 4 - index_size(dat)

parse_dat_index(dat) ==
    LET index == nibble_swap(PySlice(dat, index_start(dat),
                                     index_start(dat) + index_size(dat)))
    IN  [i \in 1..file_count(dat) |-> ParseEntry(PySlice(index, (i - 1) * 80, i * 80))]

\* dat[e.offset : e.offset + e.packed_size]; the end is clipped to the
\* length before the sum is formed, as the slice does
raw_slice(dat, e) ==
    IF e.offset >= Len(dat) THEN <<>>
    ELSE PySlice(dat, e.offset,
                 e.offset + (IF e.packed > Len(dat) THEN Len(dat) ELSE e.packed))

\* the body of the loop raises for entry e: decode_buffer reads buf[0] of an
\* empty bytearray, or the output path is the output directory itself
extract_raises(dat, e) == raw_slice(dat, e) = <<>> \/ e.name = <<>>

\* the files on disk after entries 1..n were extracted in order: a later
\* entry of the same name overwrites the earlier file
RECURSIVE written(_, _, _)
written(dat, es, n) ==
    IF n = 0 THEN {}
    ELSE LET before == written(dat, es, n - 1)
             e == es[n]
         IN  IF extract_raises(dat, e) THEN before
             ELSE {o \in before : o.name # e.name}
                  \cup {[name |-> e.name, data |-> decode_buffer(raw_slice(dat, e), 0)]}

(***************************************************************************)
(* Specification of the archive tools: a directory is packed, the .dat     *)
(* file may be replaced by one with another trailer count or entry, and    *)
(* the file is extracted.                                                  *)
(***************************************************************************)
RECURSIVE NameLess(_, _)
NameLess(m, n) ==
    IF m = <<>> THEN n # <<>>
    ELSE IF n = <<>> THEN FALSE
    ELSE IF Head(m) # Head(n) THEN Head(m) < Head(n)
    ELSE NameLess(Tail(m), Tail(n))

ArchiveNames == {<<97>>, <<97, 233>>, Repeat(97, 63)}

\* payloads: empty, or a first byte with either high bit followed by 0x48s,
\* of every length up to SmallPayloadLen and of length MaxPayloadLen
PayloadLens == (1..SmallPayloadLen) \cup {MaxPayloadLen}
Payloads ==
    {<<>>} \cup {<<first>> \o Repeat(72, n - 1) :
                     first \in ByteVals, n \in PayloadLens}

\* rglob yields each path once and the list is sorted
Directories ==
    {fs \in UNION {[1..n -> [name : ArchiveNames, data : Payloads]] : n \in 0..MaxFiles} :
        \A i \in 1..(Len(fs) - 1) : NameLess(fs[i].name, fs[i + 1].name)}

InitArchive ==
    /\ pc = "dir"
    /\ files \in Directories
    /\ archive = <<>>
    /\ entries = <<>>
    /\ outputs = {}
    /\ failed = {}
    /\ IdleEngine
    /\ IdleIndex

Pack ==
    /\ pc = "dir"
    /\ IF files = <<>>
       THEN pc' = "no_files" /\ UNCHANGED archive
       ELSE IF \E i \in 1..Len(files) : RaisesIndexError(files[i].data, 0)
       THEN pc' = "IndexError" /\ UNCHANGED archive
       ELSE pc' = "packed" /\ archive' = create_dat_archive(files)
    /\ UNCHANGED <<a4, orig, prev, buf, hist, ent, slot, parsed,
                   files, entries, outputs, failed>>

\* the .dat file handed to the extractor need not come from the packer:
\* here one whose trailer holds another count, up to one entry too many
ForeignCount ==
    /\ pc = "packed"
    /\ \E c \in 0..(Len(files) + 1) :
           /\ c # file_count(archive)
           /\ archive' = SubSeq(archive, 1, Len(archive) - 4) \o to_bytes_little(c, 4)
    /\ pc' = "foreign"
    /\ UNCHANGED <<a4, orig, prev, buf, hist, ent, slot, parsed,
                   files, entries, outputs, failed>>

\* and one whose entry i claims more packed bytes
ForeignEntry ==
    /\ pc = "packed"
    /\ \E i \in 1..Len(files), d \in {1, 80} :
           LET e == parse_dat_index(archive)[i]
               at == index_start(archive) + (i - 1) * 80
           IN  archive' =
                   SubSeq(archive, 1, at)
                   \o nibble_swap(EntrySlot(e.name, e.offset, e.unpacked, e.packed + d))
                   \o SubSeq(archive, at + 81, Len(archive))
    /\ pc' = "foreign"
    /\ UNCHANGED <<a4, orig, prev, buf, hist, ent, slot, parsed,
                   files, entries, outputs, failed>>

Extract ==
    /\ pc \in {"packed", "foreign"}
    /\ entries' = parse_dat_index(archive)
    /\ outputs' = written(archive, entries', Len(entries'))
    /\ failed' = {i \in 1..Len(entries') : extract_raises(archive, entries'[i])}
    /\ pc' = "extracted"
    /\ UNCHANGED <<a4, orig, prev, buf, hist, ent, slot, parsed, files, archive>>

NextArchive == Pack \/ ForeignCount \/ ForeignEntry \/ Extract

SpecArchive == InitArchive /\ [][NextArchive]_vars

(***************************************************************************)
(* Claims about the archive tools.                                         *)
(***************************************************************************)
NamesFit == \A i \in 1..Len(files) : Len(utf8_encode(files[i].name)) <= 63

\* the .dat file is the one the packer wrote for the directory
OwnArchive ==
    /\ files # <<>>
    /\ \A i \in 1..Len(files) : Len(files[i].data) >= 1
    /\ archive = create_dat_archive(files)

\* C2: archive round trip: files with unique names of at most 63 bytes and
\* payloads of at least 1 byte, packed and then extracted, come back as the
\* same set of (name, payload) pairs.
C2_ArchiveRoundTrip ==
    (pc = "extracted" /\ NamesFit /\ OwnArchive) =>
        outputs = {[name |-> files[i].name, data |-> files[i].data] :
                       i \in 1..Len(files)}

\* C5: an archive whose trailer count makes index_start negative is never
\* read to the end: the read fails at the index and yields no entries.
C5_NegativeIndexStartFails ==
    (archive # <<>> /\ index_start(archive) < 0) =>
        (pc # "extracted" /\ entries = <<>>)

\* C6: an entry whose offset + packed_size exceeds index_start is reported
\* as an error; no payload is written for it.
C6_OutOfRangeEntryFails ==
    pc = "extracted" =>
        \A i \in 1..Len(entries) :
            entries[i].packed > index_start(archive) - entries[i].offset =>
                /\ i \in failed
                /\ \A o \in outputs : o.name # entries[i].name

\* C7: the write path never raises when every name is at most 63 UTF-8
\* bytes, whatever the payloads, a payload of length 0 included.
C7_WriteNeverFails ==
    (files # <<>> /\ NamesFit) => pc # "IndexError"

RECURSIVE SumEncoded(_, _)
SumEncoded(fs, n) ==
    IF n = 0 THEN 0 ELSE SumEncoded(fs, n - 1) + Len(encode_buffer(fs[n].data, 0))

\* C10: archive layout: entry i's offset is the sum of the encoded lengths
\* of the entries before it, packed_size and unpacked_size are the payload's
\* length, the regions are contiguous and disjoint, the archive is
\* sum(packed_size) + 80 * file_count + 4 bytes long, and the reader's
\* index_start is the end of the last region.
C10_ArchiveLayout ==
    OwnArchive =>
        LET es == parse_dat_index(archive)
            n == Len(files)
        IN  /\ Len(es) = n
            /\ file_count(archive) = n
            /\ pc = "extracted" => entries = es
            /\ \A i \in 1..n :
                   /\ es[i].offset = SumEncoded(files, i - 1)
                   /\ es[i].packed = Len(files[i].data)
                   /\ es[i].unpacked = Len(files[i].data)
                   /\ i < n => es[i].offset + es[i].packed = es[i + 1].offset
            /\ \A i, j \in 1..n :
                   i < j => es[i].offset + es[i].packed <= es[j].offset
            /\ Len(archive) = SumEncoded(files, n) + 80 * n + 4
            /\ index_start(archive) = es[n].offset + es[n].packed

\* two files of 10 and 3 bytes were packed and the archive was read back
C10_Witness ==
    /\ pc = "extracted"
    /\ OwnArchive
    /\ Len(files) = 2
    /\ Len(files[1].data) = 10
    /\ Len(files[2].data) = 3
    /\ entries[2].offset = 10
    /\ index_start(archive) = 13

====
